---- MODULE Spec2Model ----
(***************************************************************************)
(* InterMol: the System topology container (intermol/system.py) and the    *)
(* GROMACS energy-term grouping (intermol/gromacs/gromacs_driver.py).      *)
(***************************************************************************)
EXTENDS Integers, Sequences, FiniteSets, TLC

VARIABLES
    molecule_types,              \* System._molecule_types (OrderedDict, in key order)
    n_atoms_cache,               \* System._n_atoms
    box_vector_cache,            \* System._box_vector
    bondgraph_cache,             \* System._bondgraph
    bondgraph_pm_cache,          \* System._bondgraph_per_moleculetype
    n_built,                     \* nx.Graph objects constructed, per property
    n_molecules,                 \* Molecule objects constructed so far
    n_set,                       \* the value last given to the n_atoms setter
    last,                        \* the last operation: its name, argument, result, exception
    e_in,                        \* the energy terms read from energy.xvg
    e_out                        \* the mapping _group_energy_terms returns

vars == <<molecule_types, n_atoms_cache, box_vector_cache, bondgraph_cache,
          bondgraph_pm_cache, n_built, n_molecules, n_set, last, e_in, e_out>>

sysvars == <<molecule_types, n_atoms_cache, box_vector_cache, bondgraph_cache,
             bondgraph_pm_cache, n_built, n_molecules, n_set, last>>

(***************************************************************************)
(* Bounds and input sets.                                                  *)
(***************************************************************************)
MaxMols == 2          \* Molecule objects handed to add_molecule that get stored
MaxBonds == 2         \* bond templates held by the registered MoleculeTypes

Names == {"a", "b"}   \* molecule type names
NAtomsInputs == {0, 7}                      \* values given to the n_atoms setter
Shapes == {<<3, 3>>, <<2, 3>>}              \* shapes of matrices given to box_vector

\* Python's None, and a value that is not None
None == <<>>
Some(x) == <<x>>
Val(o) == o[1]

(***************************************************************************)
(* Molecule, MoleculeType, Atom, Bond.                                     *)
(***************************************************************************)
\* number of atoms of each Molecule of a type
AtomsPerMolecule(name) == IF name = "a" THEN 2 ELSE 1

\* a Molecule object: its type's name and its identity
Molecule(name, id) == [name |-> name, id |-> id]

\* molecule.atoms: the Atom objects of a Molecule, in order
MolAtoms(m) == [k \in 1..AtomsPerMolecule(m.name) |-> <<m.id, k>>]

\* the bond templates given to a MoleculeType: 1-based atom indices, among
\* them a bond of an atom to itself and a bond listed in both orders
Bonds(name) ==
    {[atom1 |-> i, atom2 |-> j] : i \in {1}, j \in 1..AtomsPerMolecule(name)}
       \cup {[atom1 |-> i, atom2 |-> 1] : i \in 1..AtomsPerMolecule(name)}

\* MoleculeType(name): no molecules, no bonds
NewMoleculeType(name) == [name |-> name, molecules |-> <<>>, bonds |-> <<>>]

\* MoleculeType.add_molecule
MoleculeType_add_molecule(mt, m) ==
    [mt EXCEPT !.molecules = Append(@, m)]

\* adding a bond template to a MoleculeType
MoleculeType_add_bond(mt, b) ==
    [mt EXCEPT !.bonds = Append(@, b)]

(***************************************************************************)
(* OrderedDict: a sequence of values carrying their key in .name           *)
(***************************************************************************)
Keys(d) == {d[i].name : i \in 1..Len(d)}
IndexOf(d, k) == CHOOSE i \in 1..Len(d) : d[i].name = k

\* d[k] = v: an existing key keeps its position, a new key goes last
SetItem(d, v) ==
    IF v.name \in Keys(d)
    THEN [d EXCEPT ![IndexOf(d, v.name)] = v]
    ELSE Append(d, v)

RECURSIVE Flatten(_)
Flatten(ss) == IF ss = <<>> THEN <<>> ELSE Head(ss) \o Flatten(Tail(ss))

RECURSIVE SumSeq(_)
SumSeq(s) == IF s = <<>> THEN 0 ELSE Head(s) + SumSeq(Tail(s))

TotalBonds(d) == SumSeq([i \in 1..Len(d) |-> Len(d[i].bonds)])

(***************************************************************************)
(* The iteration surfaces of System.                                       *)
(***************************************************************************)
\* faulty variant: the atoms of the first Molecule of a type only
AtomsOfType_first(mt) ==
    IF mt.molecules = <<>> THEN <<>> ELSE MolAtoms(mt.molecules[1])

\* System.atoms, consumed
AtomsOfType(mt) ==
    Flatten([j \in 1..Len(mt.molecules) |-> MolAtoms(mt.molecules[j])])

atoms(d) == Flatten([i \in 1..Len(d) |-> AtomsOfType(d[i])])

\* the bond templates of mt resolved against the atoms of molecule m
PairsOfMolecule(mt, m) ==
    [j \in 1..Len(mt.bonds) |->
        <<MolAtoms(m)[mt.bonds[j].atom1], MolAtoms(m)[mt.bonds[j].atom2]>>]

\* System.connected_pairs, consumed
PairsOfType(mt) ==
    Flatten([i \in 1..Len(mt.molecules) |-> PairsOfMolecule(mt, mt.molecules[i])])

connected_pairs(d) == Flatten([i \in 1..Len(d) |-> PairsOfType(d[i])])

\* faulty variant: the loop over the molecules without its break
FirstOnly_all(s) == s

\* System.connected_pairs_per_moleculetype, consumed: the loop over the
\* molecules breaks after its first iteration
FirstOnly(s) == IF s = <<>> THEN <<>> ELSE <<Head(s)>>

PairsOfTypePM(mt) ==
    Flatten([i \in 1..Len(FirstOnly(mt.molecules)) |->
        [j \in 1..Len(mt.bonds) |->
            << <<MolAtoms(mt.molecules[i])[mt.bonds[j].atom1], mt.name>>,
               <<MolAtoms(mt.molecules[i])[mt.bonds[j].atom2], mt.name>> >>]])

connected_pairs_per_moleculetype(d) ==
    Flatten([i \in 1..Len(d) |-> PairsOfTypePM(d[i])])

(***************************************************************************)
(* networkx.Graph: an undirected simple graph; an edge is the set of its   *)
(* end points, so (u, v), (v, u) and a repeated (u, v) are one edge, and a *)
(* self loop (u, u) is the edge {u}.                                       *)
(***************************************************************************)
\* faulty variant: a directed graph: an edge is the ordered pair
add_edges_from_directed(pairs) ==
    {<<pairs[i][1], pairs[i][2]>> : i \in 1..Len(pairs)}

add_edges_from(pairs) == {{pairs[i][1], pairs[i][2]} : i \in 1..Len(pairs)}

Graph(id, pairs) == [id |-> id, edges |-> add_edges_from(pairs)]

number_of_edges(g) == Cardinality(g.edges)

(***************************************************************************)
(* System.__init__                                                         *)
(***************************************************************************)
Zeros33 == [shape |-> <<3, 3>>, data |-> 0]

\* the record of an operation: what was called, with what, what it returned,
\* the exception it raised and the exception it logged, and whether it
\* constructed a graph
Did(op, arg, ret) ==
    [op |-> op, arg |-> arg, ret |-> ret, raised |-> "none", logged |-> "none",
     built |-> FALSE]

NoOp == Did("init", None, None)

SystemInit ==
    /\ molecule_types = <<>>
    /\ n_atoms_cache = None
    /\ box_vector_cache = Zeros33
    /\ bondgraph_cache = None
    /\ bondgraph_pm_cache = None
    /\ n_built = [bondgraph |-> 0, bondgraph_per_moleculetype |-> 0]
    /\ n_molecules = 0
    /\ n_set = None
    /\ last = NoOp

(***************************************************************************)
(* System's operations.                                                    *)
(***************************************************************************)
\* faulty variant: the test `if self._bondgraph:`, an empty graph being falsy
IsCached_truthy(c) == c # None /\ Val(c).edges # {}

\* the test `self._bondgraph is not None`
IsCached(c) == c # None

\* the test `not self._n_atoms`: None and 0 are both falsy
NotTruthy(c) == c = None \/ Val(c) = 0

\* faulty variant: the molecule goes to the first MoleculeType of the registry
AddedMolecule_first(d, m) ==
    [d EXCEPT ![1] = MoleculeType_add_molecule(@, m)]

\* the registry after add_molecule(m), m's type being registered
AddedMolecule(d, m) ==
    [d EXCEPT ![IndexOf(d, m.name)] = MoleculeType_add_molecule(@, m)]

add_molecule_type(name) ==
    /\ molecule_types' = SetItem(molecule_types, NewMoleculeType(name))
    /\ last' = Did("add_molecule_type", name, None)
    /\ UNCHANGED <<n_atoms_cache, box_vector_cache, bondgraph_cache,
                   bondgraph_pm_cache, n_built, n_molecules, n_set>>

add_molecule(name) ==
    LET m == Molecule(name, n_molecules + 1) IN
    IF name \in Keys(molecule_types)
    THEN /\ n_molecules < MaxMols
         /\ molecule_types' = AddedMolecule(molecule_types, m)
         /\ n_molecules' = n_molecules + 1
         /\ last' = Did("add_molecule", m, None)
         /\ UNCHANGED <<n_atoms_cache, box_vector_cache, bondgraph_cache,
                        bondgraph_pm_cache, n_built, n_set>>
    ELSE /\ last' = [Did("add_molecule", m, None) EXCEPT !.raised = "KeyError"]
         /\ UNCHANGED <<molecule_types, n_atoms_cache, box_vector_cache,
                        bondgraph_cache, bondgraph_pm_cache, n_built,
                        n_molecules, n_set>>

add_bond(name, b) ==
    /\ name \in Keys(molecule_types)
    /\ TotalBonds(molecule_types) < MaxBonds
    /\ molecule_types' =
          [molecule_types EXCEPT ![IndexOf(molecule_types, name)] =
              MoleculeType_add_bond(@, b)]
    /\ last' = Did("add_bond", <<name, b>>, None)
    /\ UNCHANGED <<n_atoms_cache, box_vector_cache, bondgraph_cache,
                   bondgraph_pm_cache, n_built, n_molecules, n_set>>

get_atoms ==
    /\ last' = Did("atoms", None, atoms(molecule_types))
    /\ UNCHANGED <<molecule_types, n_atoms_cache, box_vector_cache,
                   bondgraph_cache, bondgraph_pm_cache, n_built, n_molecules,
                   n_set>>

get_n_atoms ==
    /\ n_atoms_cache' =
          IF NotTruthy(n_atoms_cache)
          THEN Some(Len(atoms(molecule_types)))
          ELSE n_atoms_cache
    /\ last' = Did("n_atoms", None, Val(n_atoms_cache'))
    /\ UNCHANGED <<molecule_types, box_vector_cache, bondgraph_cache,
                   bondgraph_pm_cache, n_built, n_molecules, n_set>>

set_n_atoms(n) ==
    /\ n_atoms_cache' = Some(n)
    /\ n_set' = Some(n)
    /\ last' = Did("set_n_atoms", n, None)
    /\ UNCHANGED <<molecule_types, box_vector_cache, bondgraph_cache,
                   bondgraph_pm_cache, n_built, n_molecules>>

\* a shape other than (3, 3) builds a ValueError and logs it; nothing is
\* raised, and the assignment that follows runs in both cases
set_box_vector(v) ==
    /\ box_vector_cache' = v
    /\ last' = [Did("set_box_vector", v, None) EXCEPT
                  !.logged = IF v.shape # <<3, 3>> THEN "ValueError" ELSE "none"]
    /\ UNCHANGED <<molecule_types, n_atoms_cache, bondgraph_cache,
                   bondgraph_pm_cache, n_built, n_molecules, n_set>>

get_connected_pairs ==
    /\ last' = Did("connected_pairs", None, connected_pairs(molecule_types))
    /\ UNCHANGED <<molecule_types, n_atoms_cache, box_vector_cache,
                   bondgraph_cache, bondgraph_pm_cache, n_built, n_molecules,
                   n_set>>

get_connected_pairs_per_moleculetype ==
    /\ last' = Did("connected_pairs_per_moleculetype", None,
                   connected_pairs_per_moleculetype(molecule_types))
    /\ UNCHANGED <<molecule_types, n_atoms_cache, box_vector_cache,
                   bondgraph_cache, bondgraph_pm_cache, n_built, n_molecules,
                   n_set>>

get_bondgraph ==
    /\ IF IsCached(bondgraph_cache)
       THEN UNCHANGED <<bondgraph_cache, n_built>>
       ELSE /\ n_built' = [n_built EXCEPT !.bondgraph = @ + 1]
            /\ bondgraph_cache' =
                  Some(Graph(<<"bondgraph", n_built.bondgraph + 1>>,
                             connected_pairs(molecule_types)))
    /\ last' = [Did("bondgraph", None, Val(bondgraph_cache')) EXCEPT
                  !.built = ~IsCached(bondgraph_cache)]
    /\ UNCHANGED <<molecule_types, n_atoms_cache, box_vector_cache,
                   bondgraph_pm_cache, n_molecules, n_set>>

get_bondgraph_per_moleculetype ==
    /\ IF IsCached(bondgraph_pm_cache)
       THEN UNCHANGED <<bondgraph_pm_cache, n_built>>
       ELSE /\ n_built' = [n_built EXCEPT !.bondgraph_per_moleculetype = @ + 1]
            /\ bondgraph_pm_cache' =
                  Some(Graph(<<"bondgraph_per_moleculetype",
                               n_built.bondgraph_per_moleculetype + 1>>,
                             connected_pairs_per_moleculetype(molecule_types)))
    /\ last' = [Did("bondgraph_per_moleculetype", None,
                     Val(bondgraph_pm_cache')) EXCEPT
                  !.built = ~IsCached(bondgraph_pm_cache)]
    /\ UNCHANGED <<molecule_types, n_atoms_cache, box_vector_cache,
                   bondgraph_cache, n_molecules, n_set>>

(***************************************************************************)
(* _group_energy_terms (gromacs_driver.py). An OrderedDict of energies is  *)
(* a sequence of [name, value] items in insertion order.                   *)
(***************************************************************************)
unwanted ==
    <<"Kinetic En.", "Total Energy", "Temperature", "Pressure",
      "Volume", "Box-X", "Box-Y", "Box-Z", "Box-atomic_number",
      "Pres. DC", "Vir-XY", "Vir-XX", "Vir-XZ", "Vir-YY", "Vir-YX",
      "Vir-YZ", "Vir-ZX", "Vir-ZY", "Vir-ZZ", "pV", "Density", "Enthalpy">>

dispersive == <<"LJ (SR)", "LJ-14", "Disper. corr.">>
electrostatic == <<"Coulomb (SR)", "Coulomb-14", "Coul. recip.">>
all_dihedrals == <<"Ryckaert-Bell.", "Proper Dih.", "Improper Dih.">>

Item(k, v) == [name |-> k, value |-> v]
GetItem(d, k) == d[IndexOf(d, k)].value

\* OrderedDict(zip(energy_types, energy_values))
RECURSIVE OrderedDictZip(_, _)
OrderedDictZip(ks, vs) ==
    IF ks = <<>> \/ vs = <<>>
    THEN <<>>
    ELSE LET n == IF Len(ks) < Len(vs) THEN Len(ks) ELSE Len(vs) IN
         SetItem(OrderedDictZip(SubSeq(ks, 1, n - 1), SubSeq(vs, 1, n - 1)),
                 Item(ks[n], vs[n]))

\* for group in groups: if group in e_out: del e_out[group]
\* (the items whose key is none of groups stay, in their order)
Discard(d, groups) ==
    LET Kept(item) == \A i \in 1..Len(groups) : item.name # groups[i]
    IN  SelectSeq(d, Kept)

\* e_out[cat] = 0; for group in groups: if group in e_out: e_out[cat] += e_out[group]
RECURSIVE Accumulate(_, _, _)
Accumulate(d, cat, groups) ==
    IF groups = <<>>
    THEN d
    ELSE Accumulate(
            IF Head(groups) \in Keys(d)
            THEN SetItem(d, Item(cat, GetItem(d, cat) + GetItem(d, Head(groups))))
            ELSE d,
            cat, Tail(groups))

Category(d, cat, groups) == Accumulate(SetItem(d, Item(cat, 0)), cat, groups)

\* faulty variant: Non-bonded without the electrostatic energies
NonBonded_dispersive(d) ==
    SetItem(d, Item("Non-bonded", GetItem(d, "Dispersive")))

NonBonded(d) ==
    SetItem(d, Item("Non-bonded", GetItem(d, "Electrostatic") + GetItem(d, "Dispersive")))

group_energy_terms(energy_types, energy_values) ==
    LET e0 == OrderedDictZip(energy_types, energy_values)
        e1 == Discard(e0, unwanted)
        e2 == Category(e1, "Dispersive", dispersive)
        e3 == Category(e2, "Electrostatic", electrostatic)
        e4 == NonBonded(e3)
    IN  Category(e4, "All dihedrals", all_dihedrals)

\* the energy terms an energy.xvg file lists, in the order it lists them
MaxTerms == 4
EnergyTerms ==
    <<"Bond", "Proper Dih.", "Ryckaert-Bell.", "Improper Dih.", "LJ-14",
      "Coulomb-14", "LJ (SR)", "Disper. corr.", "Coulomb (SR)", "Coul. recip.",
      "Kinetic En.", "Pressure">>
EnergyValues == {-20, 10}

\* the terms of s that a file lists
Select(s, keep) ==
    LET Listed(k) == k \in keep
    IN  SelectSeq(s, Listed)

run_group_energy_terms ==
    /\ e_out = None
    /\ e_out' = Some(group_energy_terms(e_in.energy_types, e_in.energy_values))
    /\ UNCHANGED e_in

(***************************************************************************)
(* Properties.                                                             *)
(***************************************************************************)
Range(s) == {s[i] : i \in 1..Len(s)}

\* C1: every read of bondgraph (bondgraph_per_moleculetype) returns a graph
\* whose edges are those connected_pairs (connected_pairs_per_moleculetype)
\* yields at the moment of the read, also after a mutation that follows the
\* first access.
C1_NeverStale ==
    /\ last.op = "bondgraph" =>
          last.ret.edges = add_edges_from(connected_pairs(molecule_types))
    /\ last.op = "bondgraph_per_moleculetype" =>
          last.ret.edges =
             add_edges_from(connected_pairs_per_moleculetype(molecule_types))

\* C2: a matrix whose shape is not 3x3 is never stored, and assigning one
\* raises InvalidBoxVector.
C2_MalformedBoxRejected ==
    /\ box_vector_cache.shape = <<3, 3>>
    /\ (last.op = "set_box_vector" /\ last.arg.shape # <<3, 3>>) =>
          last.raised = "InvalidBoxVector"

\* what add_molecule(m) does to the registry d, giving d2
AddMoleculeEffect(d, d2, m, raised, error) ==
    IF m.name \notin Keys(d)
    THEN raised = error /\ d2 = d
    ELSE /\ raised = "none"
         /\ Len(d2) = Len(d)
         /\ \A i \in 1..Len(d) :
               IF d[i].name = m.name
               THEN /\ d2[i].name = d[i].name
                    /\ d2[i].bonds = d[i].bonds
                    /\ d2[i].molecules = d[i].molecules \o <<m>>
               ELSE d2[i] = d[i]

C4_CachedGraphReturned ==
    [][ /\ (last'.op = "bondgraph" /\ bondgraph_cache # None) =>
             /\ last'.ret = Val(bondgraph_cache)
             /\ bondgraph_cache' = bondgraph_cache
             /\ n_built' = n_built
             /\ ~last'.built
        /\ (last'.op = "bondgraph_per_moleculetype" /\ bondgraph_pm_cache # None) =>
             /\ last'.ret = Val(bondgraph_pm_cache)
             /\ bondgraph_pm_cache' = bondgraph_pm_cache
             /\ n_built' = n_built
             /\ ~last'.built ]_vars

C4_Witness ==
    /\ last.op = "bondgraph"
    /\ ~last.built
    /\ last.ret = Val(bondgraph_cache)
    /\ last.ret.edges # {}
    /\ last.ret.edges = add_edges_from(connected_pairs(molecule_types))

\* C5 (as stated): the graph the first read of bondgraph returns has as many
\* edges as connected_pairs yields pairs.
C5_EdgeCountIsPairCount ==
    (last.op = "bondgraph" /\ last.built) =>
       number_of_edges(last.ret) = Len(connected_pairs(molecule_types))

\* C5 (amended): the graph the first read of bondgraph returns has at most as
\* many edges as connected_pairs yields pairs, and exactly as many when and
\* only when no two of the pairs join the same two atoms (in either order);
\* a pair bonding an atom to itself counts as one edge.
C5_EdgeCountDistinctPairs ==
    (last.op = "bondgraph" /\ last.built) =>
       LET ps == connected_pairs(molecule_types)
           n == number_of_edges(last.ret)
           Repeated == \E i, j \in 1..Len(ps) :
                          /\ i < j
                          /\ \/ ps[i] = ps[j]
                             \/ ps[i] = <<ps[j][2], ps[j][1]>>
       IN  /\ n <= Len(ps)
           /\ (n = Len(ps)) <=> ~Repeated
           /\ (Len(ps) > 0) => n > 0

C5_Witness ==
    /\ last.op = "bondgraph"
    /\ last.built
    /\ Len(connected_pairs(molecule_types)) = 2
    /\ number_of_edges(last.ret) = 1

\* the pairs of a result of connected_pairs_per_moleculetype that carry a
\* MoleculeType
PairsFor(r, name) == {p \in 1..Len(r) : r[p][1][2] = name /\ r[p][2][2] = name}

\* C6 (as stated): connected_pairs_per_moleculetype yields for every
\* registered MoleculeType as many pairs as the type has bond templates,
\* whatever the number of its Molecules.
C6_PairsPerTypeIsBondCount ==
    last.op = "connected_pairs_per_moleculetype" =>
       \A i \in 1..Len(molecule_types) :
          Cardinality(PairsFor(last.ret, molecule_types[i].name)) =
             Len(molecule_types[i].bonds)

\* C6 (amended): for every registered MoleculeType with at least one Molecule
\* it yields as many pairs as the type has bond templates, all of atoms of the
\* type's first Molecule; for a MoleculeType without Molecules it yields none.
C6_PairsPerTypeOfFirstMolecule ==
    last.op = "connected_pairs_per_moleculetype" =>
       LET d == molecule_types
           r == last.ret
       IN  /\ Len(r) = SumSeq([i \in 1..Len(d) |->
                          IF d[i].molecules = <<>> THEN 0 ELSE Len(d[i].bonds)])
           /\ \A i \in 1..Len(d) :
                 /\ Cardinality(PairsFor(r, d[i].name)) =
                       IF d[i].molecules = <<>> THEN 0 ELSE Len(d[i].bonds)
                 /\ \A p \in PairsFor(r, d[i].name) :
                       /\ r[p][1][1][1] = d[i].molecules[1].id
                       /\ r[p][2][1][1] = d[i].molecules[1].id

C6_Witness ==
    /\ last.op = "connected_pairs_per_moleculetype"
    /\ \E i, j \in 1..Len(molecule_types) :
          /\ Len(molecule_types[i].molecules) = 2
          /\ Len(molecule_types[i].bonds) = 1
          /\ Len(molecule_types[j].molecules) = 0
          /\ Len(molecule_types[j].bonds) = 1
    /\ Len(last.ret) = 1

\* C7: atoms yields every atom of every Molecule of every registered
\* MoleculeType exactly once, in registry order, then molecule order, then
\* atom order; their number is the sum over the MoleculeTypes of atoms per
\* molecule times number of molecules.
C7_AtomsTraversal ==
    last.op = "atoms" =>
       LET d == molecule_types
           r == last.ret
           Count(i) == AtomsPerMolecule(d[i].name) * Len(d[i].molecules)
           Offset(i) == SumSeq([h \in 1..(i - 1) |-> Count(h)])
       IN  /\ Len(r) = SumSeq([i \in 1..Len(d) |-> Count(i)])
           /\ \A i \in 1..Len(d) :
                 \A j \in 1..Len(d[i].molecules) :
                    \A k \in 1..AtomsPerMolecule(d[i].name) :
                       r[Offset(i) + (j - 1) * AtomsPerMolecule(d[i].name) + k]
                          = MolAtoms(d[i].molecules[j])[k]
           /\ \A p, q \in 1..Len(r) : r[p] = r[q] => p = q

C7_Witness ==
    /\ last.op = "atoms"
    /\ Len(molecule_types) = 2
    /\ \A i \in 1..2 : Len(molecule_types[i].molecules) = 1
    /\ Len(last.ret) = 3

C9_SetterOverrides ==
    (last.op = "n_atoms" /\ n_set # None) => last.ret = Val(n_set)

\* C10: while the n_atoms setter was never called, a read of n_atoms returns
\* the number of atoms the atoms iterator yields at that moment.
C10_CountNeverStale ==
    (last.op = "n_atoms" /\ n_set = None) =>
       last.ret = Len(atoms(molecule_types))

(***************************************************************************)
(* Specifications.                                                         *)
(***************************************************************************)
evars == <<e_in, e_out>>

Init ==
    /\ SystemInit
    /\ e_in = [energy_types |-> <<>>, energy_values |-> <<>>]
    /\ e_out = None

\* the registry, the bond templates and the bond graphs
NextBondGraph ==
    \/ \E name \in Names : add_molecule_type(name) /\ UNCHANGED evars
    \/ \E name \in Names : add_molecule(name) /\ UNCHANGED evars
    \/ \E name \in Names : \E b \in Bonds(name) :
          add_bond(name, b) /\ UNCHANGED evars
    \/ get_connected_pairs /\ UNCHANGED evars
    \/ get_connected_pairs_per_moleculetype /\ UNCHANGED evars
    \/ get_bondgraph /\ UNCHANGED evars
    \/ get_bondgraph_per_moleculetype /\ UNCHANGED evars

SpecBondGraph == Init /\ [][NextBondGraph]_vars

\* the registry, the atoms, the atom count and the box vector
NextAtoms ==
    \/ \E name \in Names : add_molecule_type(name) /\ UNCHANGED evars
    \/ \E name \in Names : add_molecule(name) /\ UNCHANGED evars
    \/ get_atoms /\ UNCHANGED evars
    \/ get_n_atoms /\ UNCHANGED evars
    \/ \E n \in NAtomsInputs : set_n_atoms(n) /\ UNCHANGED evars
    \/ \E s \in Shapes : set_box_vector([shape |-> s, data |-> 1])
          /\ UNCHANGED evars

SpecAtoms == Init /\ [][NextAtoms]_vars

\* the energy terms of one energy.xvg file, grouped
InitEnergy ==
    /\ SystemInit
    /\ \E present \in SUBSET {EnergyTerms[i] : i \in 1..Len(EnergyTerms)} :
          /\ Cardinality(present) <= MaxTerms
          /\ \E value \in [present -> EnergyValues] :
                LET ks == Select(EnergyTerms, present) IN
                e_in = [energy_types |-> ks,
                        energy_values |-> [i \in 1..Len(ks) |-> value[ks[i]]]]
    /\ e_out = None

NextEnergy == run_group_energy_terms /\ UNCHANGED sysvars

SpecEnergy == InitEnergy /\ [][NextEnergy]_vars

====
